---- MODULE Spec2Model ----
(***************************************************************************)
(* A model of src/or/conscache.c: the reference-counted, disk-backed       *)
(* consensus cache.  Entries live in numbered memory slots; the cache's    *)
(* smartlist holds slot numbers; the storage directory maps file names to  *)
(* the labels stored in them.                                              *)
(***************************************************************************)
EXTENDS Integers, Sequences, FiniteSets, TLC

----------------------------------------------------------------------------
(* Bounds of the model. *)

\* Number of memory slots an entry can be allocated in.
MaxEnt == 2
\* Number of file names the storage directory can hand out.
MaxFiles == 2
\* External references one entry can carry at the same time.
MaxRef == 2
\* Largest value of the clock approx_time() reads.
MaxTime == 1
\* Longest list callers pass to consensus_cache_filter_list().
MaxList == 3
\* Number of weak handles callers can make.
MaxHandles == 2

----------------------------------------------------------------------------
(* Program constants. *)

CCE_MAGIC == 387326547

\* The sentinel for "not unused": larger than every time the clock reads.
TIME_MAX == MaxTime + 1

Slots == 1..MaxEnt
Handles == 1..MaxHandles
FNames == 1..MaxFiles
Times == 0..MaxTime
Cutoffs == 0..TIME_MAX

\* The label lists callers store, as lists of <<key, value>> lines.
LabelSets == { << >>, << <<"k", "a">> >>, << <<"k", "b">> >> }
\* The label lists stored where the files are read back: keys are unique
\* within a list.
StoreLabels == { << <<"k", "a">> >>, << <<"k", "a">>, <<"j", "b">> >> }
\* The one label list used where the labels play no part.
PlainLabels == { << <<"k", "a">> >> }
\* The bodies callers store, as lists of bytes.
Bodies == { <<7>>, <<8, 9>> }
\* The one body used where the bytes play no part.
PlainBodies == { <<7>> }
\* A NULL key is the empty string.
Keys == {"", "k", "j"}
Values == {"a", "b"}

\* A slot that holds no entry: the memory after memwipe() and tor_free().
FreeEnt ==
  [magic |-> 0, refcnt |-> 0, can_remove |-> FALSE,
   release_aggressively |-> FALSE, fname |-> 0, labels |-> << >>,
   in_cache |-> FALSE, unused_since |-> 0, map |-> FALSE,
   bodylen |-> 0, body |-> << >>]

VARIABLES
  ent,      \* slot -> consensus_cache_entry_t
  entries,  \* cache->entries, a smartlist of slots
  open,     \* TRUE while a consensus_cache_t exists
  files,    \* the storage directory: file name -> [labels, body]
  now,      \* what approx_time() returns
  ext,      \* slot -> references held by callers (from add and incref)
  wh,       \* weak handle -> the slot it refers to, 0 unused, -1 cleared
  op        \* the last call made and what it returned

vars == <<ent, entries, open, files, now, ext, wh, op>>

Live(e) == ent[e].magic = CCE_MAGIC

\* The log of a call: its name and arguments (e an entry, n a number, key
\* and value), what it returned (out), the files it removed (rm) and the
\* entries it unmapped (un); and what it found: the entry before the call
\* (pre), the entry before the incref a decref follows (pre0), and, for the
\* calls on the whole cache, every entry (was) and the collection (list).
\* add logs the labels and the body it was given and the directory it found
\* (dir); get_body logs the body and the size it stored (body, sz) and whether
\* it asked the storage to map the file (asked).  Every call logs the weak
\* handles it found (hw).
NoOp ==
  [name |-> "init", e |-> 0, n |-> 0, key |-> "", value |-> "",
   pre |-> FreeEnt, pre0 |-> FreeEnt, out |-> << >>, rm |-> {}, un |-> {},
   was |-> [s \in Slots |-> FreeEnt], list |-> << >>,
   labels |-> << >>, body |-> << >>, sz |-> 0, asked |-> FALSE, dir |-> << >>,
   hw |-> [h \in Handles |-> 0]]

\* The log of a call on the whole cache, which finds entries es in list sl.
CacheCall(name, es, sl) ==
  [NoOp EXCEPT !.name = name, !.was = es, !.list = sl, !.hw = wh]

Call(name) == [NoOp EXCEPT !.name = name, !.hw = wh]

----------------------------------------------------------------------------
(* Helpers of the libraries the cache is built on. *)

\* config_line_find(): the first line of the list with the given key.
RECURSIVE config_line_find(_, _)
config_line_find(lines, key) ==
  IF lines = << >> THEN << >>
  ELSE IF Head(lines)[1] = key THEN Head(lines)
  ELSE config_line_find(Tail(lines), key)

\* smartlist_del(): the last element takes the place of the idx-th.
smartlist_del(sl, idx) ==
  [j \in 1..(Len(sl) - 1) |-> IF j = idx THEN sl[Len(sl)] ELSE sl[j]]

\* storage_dir_save_labeled_to_file(): a file name not in use.
NewFName(fs) == CHOOSE f \in FNames \ DOMAIN fs : \A g \in FNames \ DOMAIN fs : f <= g

\* tor_malloc_zero(): a slot not in use.
NewSlot(es) ==
  CHOOSE s \in Slots : es[s].magic # CCE_MAGIC
                       /\ \A t \in Slots : es[t].magic # CCE_MAGIC => s <= t

\* consensus_cache_entry_handles_clear(): the handles to the entry in slot s
\* refer to nothing from now on.
consensus_cache_entry_handles_clear(w, s) ==
  [h \in DOMAIN w |-> IF w[h] = s THEN -1 ELSE w[h]]

\* consensus_cache_entry_handle_new(): handle h refers to the entry in s.
consensus_cache_entry_handle_new(w, h, s) == [w EXCEPT ![h] = s]

\* consensus_cache_entry_handle_get(): the slot handle h refers to, or 0.
consensus_cache_entry_handle_get(w, h) == IF w[h] > 0 THEN w[h] ELSE 0

----------------------------------------------------------------------------
(* Entries. *)

\* consensus_cache_entry_get_value()
consensus_cache_entry_get_value(x, key) ==
  LET match == config_line_find(x.labels, key)
  IN  IF match # << >> THEN match[2] ELSE ""

\* consensus_cache_entry_unmap()
consensus_cache_entry_unmap(x) ==
  IF ~x.map THEN [x EXCEPT !.unused_since = TIME_MAX]
  ELSE [x EXCEPT !.unused_since = TIME_MAX, !.map = FALSE,
                 !.body = << >>, !.bodylen = 0]

\* storage_dir_map_labeled() of file fname in directory fs: ok says whether
\* the storage can map the file, if it is there.
storage_dir_map_labeled(fs, fname, ok) ==
  IF ok /\ fname \in DOMAIN fs
    THEN [map |-> TRUE, body |-> fs[fname].body, bodylen |-> Len(fs[fname].body)]
    ELSE [map |-> FALSE, body |-> << >>, bodylen |-> 0]

\* consensus_cache_entry_map(), in a cache on directory fs
consensus_cache_entry_map(x, fs, ok) ==
  IF x.map THEN x
  ELSE LET m == storage_dir_map_labeled(fs, x.fname, ok)
       IN  [x EXCEPT !.map = m.map, !.body = m.body, !.bodylen = m.bodylen,
                     !.unused_since = TIME_MAX]

\* A get_body that maps the file without looking at in_cache.
get_body_maps_detached(x, fs, ok) ==
  IF x.magic # CCE_MAGIC
    THEN [ent |-> x, r |-> -1, body |-> << >>, sz |-> 0, asked |-> FALSE]
  ELSE LET y == IF ~x.map THEN consensus_cache_entry_map(x, fs, ok) ELSE x
       IN  IF ~y.map
             THEN [ent |-> y, r |-> -1, body |-> << >>, sz |-> 0, asked |-> TRUE]
             ELSE [ent |-> y, r |-> 0, body |-> y.body, sz |-> y.bodylen,
                   asked |-> ~x.map]

\* consensus_cache_entry_get_body(): r is what it returns, body and sz what
\* it stores through body_out and sz_out, asked whether it asked the storage
\* to map the file.
consensus_cache_entry_get_body(x, fs, ok) ==
  IF x.magic # CCE_MAGIC
    THEN [ent |-> x, r |-> -1, body |-> << >>, sz |-> 0, asked |-> FALSE]
  ELSE IF ~x.map /\ ~x.in_cache
    THEN [ent |-> x, r |-> -1, body |-> << >>, sz |-> 0, asked |-> FALSE]
  ELSE LET y == IF ~x.map THEN consensus_cache_entry_map(x, fs, ok) ELSE x
       IN  IF ~y.map
             THEN [ent |-> y, r |-> -1, body |-> << >>, sz |-> 0, asked |-> TRUE]
             ELSE [ent |-> y, r |-> 0, body |-> y.body, sz |-> y.bodylen,
                   asked |-> ~x.map]

\* incref that forgets to reset the idle clock.
incref_keeps_unused_since(x) ==
  IF x.magic # CCE_MAGIC THEN x
  ELSE [x EXCEPT !.refcnt = @ + 1]

\* consensus_cache_entry_incref()
consensus_cache_entry_incref(x) ==
  IF x.magic # CCE_MAGIC THEN x
  ELSE [x EXCEPT !.refcnt = @ + 1, !.unused_since = TIME_MAX]

\* A release that never unmaps at once.
ReleaseToCacheLazyOnly(x, t) ==
  IF x.map THEN [x EXCEPT !.unused_since = t] ELSE x

\* What decref does once only the cache holds the entry.
ReleaseToCache(x, t) ==
  IF x.map
    THEN IF x.release_aggressively
           THEN consensus_cache_entry_unmap(x)
           ELSE [x EXCEPT !.unused_since = t]
    ELSE x

\* decref that does not ask whether the entry is still in a cache.
decref_ignores_in_cache(x, t) ==
  IF x.refcnt <= 0 \/ x.magic # CCE_MAGIC THEN x
  ELSE LET y == [x EXCEPT !.refcnt = @ - 1]
       IN  IF y.refcnt = 1 THEN ReleaseToCache(y, t)
           ELSE IF y.refcnt > 0 THEN y
           ELSE FreeEnt

\* A decref that frees an entry that is in no cache whatever references are
\* left.
decref_frees_detached(x, t) ==
  IF x.refcnt <= 0 \/ x.magic # CCE_MAGIC THEN x
  ELSE LET y == [x EXCEPT !.refcnt = @ - 1]
       IN  IF y.refcnt = 1 /\ y.in_cache THEN ReleaseToCache(y, t)
           ELSE IF y.refcnt > 0 /\ y.in_cache THEN y
           ELSE FreeEnt

\* A decref that does not free the entry when no reference is left.
decref_never_frees(x, t) ==
  IF x.refcnt <= 0 \/ x.magic # CCE_MAGIC THEN x
  ELSE LET y == [x EXCEPT !.refcnt = @ - 1]
       IN  IF y.refcnt = 1 /\ y.in_cache THEN ReleaseToCache(y, t)
           ELSE y

\* consensus_cache_entry_decref(), at time t
consensus_cache_entry_decref(x, t) ==
  IF x.refcnt <= 0 \/ x.magic # CCE_MAGIC THEN x
  ELSE LET y == [x EXCEPT !.refcnt = @ - 1]
       IN  IF y.refcnt = 1 /\ y.in_cache THEN ReleaseToCache(y, t)
           ELSE IF y.refcnt > 0 THEN y
           ELSE FreeEnt

\* The handles after a call that took the entries from es to es2: decref
\* clears the handles of every entry it frees.
RECURSIVE handles_after_loop(_, _, _, _)
handles_after_loop(w, es, es2, s) ==
  IF s > MaxEnt THEN w
  ELSE IF es[s].magic = CCE_MAGIC /\ es2[s].magic # CCE_MAGIC
    THEN handles_after_loop(consensus_cache_entry_handles_clear(w, s), es, es2, s + 1)
  ELSE handles_after_loop(w, es, es2, s + 1)

\* Handles that outlive the entry they refer to.
HandlesKept(w, es, es2) == w

HandlesAfter(w, es, es2) == handles_after_loop(w, es, es2, 1)

----------------------------------------------------------------------------
(* The cache. *)

\* A sweep that never spares an entry in use.
InUseNever(x, force) == FALSE

\* A sweep that spares entries in use even when forced.
InUseIgnoresForce(x, force) == x.refcnt > 1 \/ ~x.in_cache

\* The test of consensus_cache_delete_pending() for "somebody is using it".
InUse(x, force) == ~force /\ (x.refcnt > 1 \/ ~x.in_cache)

\* One pass of the loop of consensus_cache_delete_pending(), from index i.
\* st is [ent, entries, files, rm]: rm collects the files removed.
RECURSIVE delete_pending_loop(_, _, _, _)
delete_pending_loop(st, i, force, t) ==
  IF i > Len(st.entries) THEN st
  ELSE LET e == st.entries[i]
           x == st.ent[e]
       IN  IF InUse(x, force) \/ ~x.can_remove \/ x.refcnt <= 0
             THEN delete_pending_loop(st, i + 1, force, t)
             ELSE delete_pending_loop(
                    [ent |-> [st.ent EXCEPT ![e] =
                        consensus_cache_entry_decref([x EXCEPT !.in_cache = FALSE], t)],
                     entries |-> smartlist_del(st.entries, i),
                     files |-> [f \in DOMAIN st.files \ {x.fname} |-> st.files[f]],
                     rm |-> st.rm \cup {x.fname}],
                    i, force, t)

\* consensus_cache_delete_pending()
consensus_cache_delete_pending(es, sl, fs, force, t) ==
  delete_pending_loop([ent |-> es, entries |-> sl, files |-> fs, rm |-> {}],
                      1, force, t)

\* A clear that forces the deletion sweep.
ClearForceTrue == TRUE

\* The force argument consensus_cache_clear() passes to the deletion sweep.
ClearForce == FALSE

\* A clear that releases the entries without detaching them.
RECURSIVE clear_loop_attached(_, _, _, _)
clear_loop_attached(es, sl, i, t) ==
  IF i > Len(sl) THEN es
  ELSE clear_loop_attached(
         [es EXCEPT ![sl[i]] = consensus_cache_entry_decref(es[sl[i]], t)],
         sl, i + 1, t)

\* The loop of consensus_cache_clear(): detach and release every entry.
RECURSIVE clear_loop(_, _, _, _)
clear_loop(es, sl, i, t) ==
  IF i > Len(sl) THEN es
  ELSE clear_loop(
         [es EXCEPT ![sl[i]] =
            consensus_cache_entry_decref([es[sl[i]] EXCEPT !.in_cache = FALSE], t)],
         sl, i + 1, t)

\* consensus_cache_clear()
consensus_cache_clear(es, sl, fs, t) ==
  LET st == consensus_cache_delete_pending(es, sl, fs, ClearForce, t)
  IN  [st EXCEPT !.ent = clear_loop(st.ent, st.entries, 1, t),
                 !.entries = << >>]

\* A lookup that does not look at can_remove.
find_all_adds_marked(x, key, value) ==
  LET found_val == consensus_cache_entry_get_value(x, key)
  IN  IF key = "" THEN TRUE
      ELSE found_val # "" /\ value = found_val

\* The body of the loop of consensus_cache_find_all(): is x added to out?
find_all_adds(x, key, value) ==
  LET found_val == consensus_cache_entry_get_value(x, key)
  IN  IF x.can_remove THEN FALSE
      ELSE IF key = "" THEN TRUE
      ELSE found_val # "" /\ value = found_val

\* The loop of consensus_cache_find_all(), from index i, appending to out.
RECURSIVE find_all_loop(_, _, _, _, _, _)
find_all_loop(out, es, sl, i, key, value) ==
  IF i > Len(sl) THEN out
  ELSE find_all_loop(
         IF find_all_adds(es[sl[i]], key, value) THEN Append(out, sl[i]) ELSE out,
         es, sl, i + 1, key, value)

\* consensus_cache_find_all()
consensus_cache_find_all(es, sl, key, value) ==
  find_all_loop(<< >>, es, sl, 1, key, value)

\* consensus_cache_find_first(): the slot found, or 0 for NULL.
consensus_cache_find_first(es, sl, key, value) ==
  LET tmp == consensus_cache_find_all(es, sl, key, value)
  IN  IF Len(tmp) # 0 THEN tmp[1] ELSE 0

\* Does the loop of consensus_cache_filter_list() delete x from the list?
filter_list_deletes(x, key, value) ==
  LET found_val == consensus_cache_entry_get_value(x, key)
  IN  found_val = "" \/ value # found_val

\* A filter that moves on to the next index after it deleted an element.
RECURSIVE filter_list_loop_skips(_, _, _, _, _)
filter_list_loop_skips(es, lst, i, key, value) ==
  IF i > Len(lst) THEN lst
  ELSE IF filter_list_deletes(es[lst[i]], key, value)
    THEN filter_list_loop_skips(es, smartlist_del(lst, i), i + 1, key, value)
  ELSE filter_list_loop_skips(es, lst, i + 1, key, value)

\* The loop of consensus_cache_filter_list() from index i: after
\* SMARTLIST_DEL_CURRENT the same index is looked at again.
RECURSIVE filter_list_loop(_, _, _, _, _)
filter_list_loop(es, lst, i, key, value) ==
  IF i > Len(lst) THEN lst
  ELSE IF filter_list_deletes(es[lst[i]], key, value)
    THEN filter_list_loop(es, smartlist_del(lst, i), i, key, value)
  ELSE filter_list_loop(es, lst, i + 1, key, value)

\* consensus_cache_filter_list()
consensus_cache_filter_list(es, lst, key, value) ==
  IF key = "" THEN lst
  ELSE filter_list_loop(es, lst, 1, key, value)

\* The entry consensus_cache_rescan() builds for a file.
RescanEnt(fname, labels) ==
  [FreeEnt EXCEPT !.magic = CCE_MAGIC, !.fname = fname, !.labels = labels,
                  !.refcnt = 1, !.in_cache = TRUE, !.unused_since = TIME_MAX]

\* A rescan that stops at the first file the storage fails to map.
RECURSIVE rescan_loop_aborts(_, _, _, _, _)
rescan_loop_aborts(es, sl, fs, f, bad) ==
  IF f > MaxFiles THEN [ent |-> es, entries |-> sl]
  ELSE IF f \notin DOMAIN fs
    THEN rescan_loop_aborts(es, sl, fs, f + 1, bad)
  ELSE IF f \in bad
    THEN [ent |-> es, entries |-> sl]
  ELSE LET s == NewSlot(es)
       IN  rescan_loop_aborts([es EXCEPT ![s] = RescanEnt(f, fs[f].labels)],
                              Append(sl, s), fs, f + 1, bad)

\* The loop of consensus_cache_rescan() over the file names from f on;
\* bad is the set of files the storage fails to map.
RECURSIVE rescan_loop(_, _, _, _, _)
rescan_loop(es, sl, fs, f, bad) ==
  IF f > MaxFiles THEN [ent |-> es, entries |-> sl]
  ELSE IF f \notin DOMAIN fs \/ f \in bad
    THEN rescan_loop(es, sl, fs, f + 1, bad)
  ELSE LET s == NewSlot(es)
       IN  rescan_loop([es EXCEPT ![s] = RescanEnt(f, fs[f].labels)],
                       Append(sl, s), fs, f + 1, bad)

\* An add that counts only one reference.
AddEntOneRef(fname, labels) ==
  [FreeEnt EXCEPT !.magic = CCE_MAGIC, !.fname = fname, !.labels = labels,
                  !.in_cache = TRUE, !.unused_since = TIME_MAX, !.refcnt = 1]

\* The entry consensus_cache_add() builds.
AddEnt(fname, labels) ==
  [FreeEnt EXCEPT !.magic = CCE_MAGIC, !.fname = fname, !.labels = labels,
                  !.in_cache = TRUE, !.unused_since = TIME_MAX, !.refcnt = 2]

\* A sweep that spares an entry unused exactly since the cutoff.
unmap_lazy_ent_strict(x, cutoff) ==
  IF x.refcnt > 1 \/ ~x.in_cache THEN x
  ELSE IF x.unused_since >= cutoff THEN x
  ELSE IF ~x.map THEN x
  ELSE consensus_cache_entry_unmap(x)

\* A sweep that does not look at the references.
unmap_lazy_ent_held(x, cutoff) ==
  IF ~x.in_cache THEN x
  ELSE IF x.unused_since > cutoff THEN x
  ELSE IF ~x.map THEN x
  ELSE consensus_cache_entry_unmap(x)

\* The sweep test of consensus_cache_unmap_lazy() for one entry.
unmap_lazy_ent(x, cutoff) ==
  IF x.refcnt > 1 \/ ~x.in_cache THEN x
  ELSE IF x.unused_since > cutoff THEN x
  ELSE IF ~x.map THEN x
  ELSE consensus_cache_entry_unmap(x)

\* consensus_cache_unmap_lazy()
consensus_cache_unmap_lazy(es, sl, cutoff) ==
  [s \in Slots |->
     IF \E i \in 1..Len(sl) : sl[i] = s THEN unmap_lazy_ent(es[s], cutoff)
     ELSE es[s]]

NFree(es) == Cardinality({s \in Slots : es[s].magic # CCE_MAGIC})

\* consensus_cache_add() without the smartlist_add() of the new entry
consensus_cache_add_unlisted(es, sl, fs, labels, data, ok) ==
  IF ~ok THEN [ent |-> es, entries |-> sl, files |-> fs, e |-> 0]
  ELSE LET f == NewFName(fs)
           s == NewSlot(es)
       IN  [ent |-> [es EXCEPT ![s] = AddEnt(f, labels)],
            entries |-> sl,
            files |-> [g \in DOMAIN fs \cup {f} |->
                         IF g = f THEN [labels |-> labels, body |-> data]
                         ELSE fs[g]],
            e |-> s]

\* consensus_cache_add() that makes and lists the entry before it looks at
\* what the storage returned
consensus_cache_add_lists_first(es, sl, fs, labels, data, ok) ==
  IF NFree(es) = 0 THEN [ent |-> es, entries |-> sl, files |-> fs, e |-> 0]
  ELSE LET s == NewSlot(es)
       IN  [ent |-> [es EXCEPT ![s] = AddEnt(0, labels)],
            entries |-> Append(sl, s),
            files |-> fs,
            e |-> IF ok THEN s ELSE 0]

\* consensus_cache_add() of data under labels: ok says whether the storage
\* saved the file.  e is the entry it returns, 0 for NULL.
consensus_cache_add(es, sl, fs, labels, data, ok) ==
  IF ~ok THEN [ent |-> es, entries |-> sl, files |-> fs, e |-> 0]
  ELSE LET f == NewFName(fs)
           s == NewSlot(es)
       IN  [ent |-> [es EXCEPT ![s] = AddEnt(f, labels)],
            entries |-> Append(sl, s),
            files |-> [g \in DOMAIN fs \cup {f} |->
                         IF g = f THEN [labels |-> labels, body |-> data]
                         ELSE fs[g]],
            e |-> s]

----------------------------------------------------------------------------
(* The calls a program makes. *)

Init ==
  /\ ent = [s \in Slots |-> FreeEnt]
  /\ entries = << >>
  /\ open = FALSE
  /\ files = << >>
  /\ now = 0
  /\ ext = [s \in Slots |-> 0]
  /\ wh = [h \in Handles |-> 0]
  /\ op = NoOp

\* consensus_cache_open(): a new cache, filled by a rescan of the directory.
\* The storage fails to map the files of bad, one of the sets of Bad.
Open(Bad) ==
  /\ ~open
  /\ \E bad \in Bad :
       /\ NFree(ent) >= Cardinality(DOMAIN files \ bad)
       /\ LET st == rescan_loop(ent, << >>, files, 1, bad)
          IN  /\ ent' = st.ent
              /\ entries' = st.entries
       /\ op' = [CacheCall("open", ent, entries) EXCEPT !.rm = bad]
  /\ open' = TRUE
  /\ UNCHANGED <<files, now, ext, wh>>

\* consensus_cache_free()
Close ==
  /\ open
  /\ LET st == consensus_cache_clear(ent, entries, files, now)
     IN  /\ ent' = st.ent
         /\ entries' = st.entries
         /\ files' = st.files
         /\ op' = [CacheCall("close", ent, entries) EXCEPT
                     !.rm = st.rm, !.dir = files]
  /\ open' = FALSE
  /\ wh' = HandlesAfter(wh, ent, ent')
  /\ UNCHANGED <<now, ext>>

\* consensus_cache_add() with labels from L and data from B: ok says whether
\* the storage saved the file.  The caller owns a reference to the entry
\* returned.
Add(L, B) ==
  /\ open
  /\ \E labels \in L, data \in B, ok \in BOOLEAN :
       /\ ok => NFree(ent) > 0 /\ DOMAIN files # FNames
       /\ LET st == consensus_cache_add(ent, entries, files, labels, data, ok)
          IN  /\ ent' = st.ent
              /\ entries' = st.entries
              /\ files' = st.files
              /\ ext' = [s \in Slots |-> IF s = st.e THEN 1 ELSE ext[s]]
              /\ op' = [CacheCall("add", ent, entries) EXCEPT
                          !.e = st.e, !.n = IF ok THEN 1 ELSE 0,
                          !.labels = labels, !.body = data, !.dir = files]
  /\ UNCHANGED <<open, now, wh>>

\* consensus_cache_find_all()
FindAll ==
  /\ open
  /\ \E key \in Keys, value \in Values :
       op' = [CacheCall("find_all", ent, entries) EXCEPT !.key = key, !.value = value,
                !.out = consensus_cache_find_all(ent, entries, key, value)]
  /\ UNCHANGED <<ent, entries, open, files, now, ext, wh>>

\* consensus_cache_find_first()
FindFirst ==
  /\ open
  /\ \E key \in Keys, value \in Values :
       op' = [CacheCall("find_first", ent, entries) EXCEPT !.key = key, !.value = value,
                !.e = consensus_cache_find_first(ent, entries, key, value)]
  /\ UNCHANGED <<ent, entries, open, files, now, ext, wh>>

\* consensus_cache_entry_incref() by a caller
Incref ==
  /\ \E e \in Slots :
       /\ Live(e)
       /\ ext[e] < MaxRef
       /\ ent' = [ent EXCEPT ![e] = consensus_cache_entry_incref(ent[e])]
       /\ ext' = [ext EXCEPT ![e] = @ + 1]
       /\ op' = [Call("incref") EXCEPT !.e = e, !.pre = ent[e]]
  /\ UNCHANGED <<entries, open, files, now, wh>>

\* consensus_cache_entry_decref() by a caller that holds a reference
Decref ==
  /\ \E e \in Slots :
       /\ Live(e)
       /\ ext[e] > 0
       /\ ent' = [ent EXCEPT ![e] = consensus_cache_entry_decref(ent[e], now)]
       /\ ext' = [ext EXCEPT ![e] = @ - 1]
       /\ op' = [Call("decref") EXCEPT !.e = e, !.pre = ent[e],
                   !.pre0 = IF op.name = "incref" /\ op.e = e
                              THEN op.pre ELSE FreeEnt]
  /\ wh' = HandlesAfter(wh, ent, ent')
  /\ UNCHANGED <<entries, open, files, now>>

\* consensus_cache_entry_mark_for_removal()
MarkForRemoval ==
  /\ \E e \in Slots :
       /\ Live(e)
       /\ ent' = [ent EXCEPT ![e].can_remove = TRUE]
       /\ op' = [Call("mark_for_removal") EXCEPT !.e = e]
  /\ UNCHANGED <<entries, open, files, now, ext, wh>>

\* consensus_cache_entry_mark_for_aggressive_release()
MarkForAggressiveRelease ==
  /\ \E e \in Slots :
       /\ Live(e)
       /\ ent' = [ent EXCEPT ![e].release_aggressively = TRUE]
       /\ op' = [Call("mark_for_aggressive_release") EXCEPT !.e = e]
  /\ UNCHANGED <<entries, open, files, now, ext, wh>>

\* consensus_cache_entry_get_body(): n is 0 on success, -1 on failure
GetBody ==
  /\ \E e \in Slots, ok \in BOOLEAN :
       /\ Live(e)
       /\ LET g == consensus_cache_entry_get_body(ent[e], files, ok)
          IN  /\ ent' = [ent EXCEPT ![e] = g.ent]
              /\ op' = [Call("get_body") EXCEPT !.e = e, !.pre = ent[e],
                          !.n = g.r, !.body = g.body, !.sz = g.sz,
                          !.asked = g.asked]
  /\ UNCHANGED <<entries, open, files, now, ext, wh>>

\* consensus_cache_unmap_lazy()
UnmapLazy ==
  /\ open
  /\ \E cutoff \in Cutoffs :
       /\ ent' = consensus_cache_unmap_lazy(ent, entries, cutoff)
       /\ op' = [CacheCall("unmap_lazy", ent, entries) EXCEPT !.n = cutoff,
                   !.un = {s \in Slots : ent[s].map /\ ~ent'[s].map}]
  /\ UNCHANGED <<entries, open, files, now, ext, wh>>

\* consensus_cache_delete_pending()
DeletePending ==
  /\ open
  /\ \E force \in BOOLEAN :
       LET st == consensus_cache_delete_pending(ent, entries, files, force, now)
       IN  /\ ent' = st.ent
           /\ entries' = st.entries
           /\ files' = st.files
           /\ op' = [CacheCall("delete_pending", ent, entries) EXCEPT !.n = IF force THEN 1 ELSE 0,
                       !.rm = st.rm]
  /\ wh' = HandlesAfter(wh, ent, ent')
  /\ UNCHANGED <<open, now, ext>>

\* The clock advances.
Tick ==
  /\ now < MaxTime
  /\ now' = now + 1
  /\ op' = Call("tick")
  /\ UNCHANGED <<ent, entries, open, files, ext, wh>>

\* consensus_cache_entry_handle_new() by a caller, on a live entry
HandleNew ==
  /\ \E h \in Handles, e \in Slots :
       /\ wh[h] = 0
       /\ Live(e)
       /\ wh' = consensus_cache_entry_handle_new(wh, h, e)
       /\ op' = [Call("handle_new") EXCEPT !.e = e, !.n = h]
  /\ UNCHANGED <<ent, entries, open, files, now, ext>>

\* consensus_cache_entry_handle_get() by a caller, on a handle it made
HandleGet ==
  /\ \E h \in Handles :
       /\ wh[h] # 0
       /\ op' = [Call("handle_get") EXCEPT
                   !.n = h, !.e = consensus_cache_entry_handle_get(wh, h)]
  /\ UNCHANGED <<ent, entries, open, files, now, ext, wh>>

\* The lists of at most MaxList entries out of S.
Lists(S) == UNION {[1..n -> S] : n \in 0..MaxList}

\* consensus_cache_filter_list() by a caller, on a list of live entries
FilterList ==
  /\ \E lst \in Lists({s \in Slots : Live(s)}), key \in Keys, value \in Values :
       op' = [CacheCall("filter_list", ent, lst) EXCEPT
                !.key = key, !.value = value,
                !.out = consensus_cache_filter_list(ent, lst, key, value)]
  /\ UNCHANGED <<ent, entries, open, files, now, ext, wh>>

Next ==
  \/ Open({{}})
  \/ Close
  \/ Add(PlainLabels, PlainBodies)
  \/ Incref
  \/ Decref
  \/ MarkForRemoval
  \/ MarkForAggressiveRelease
  \/ GetBody
  \/ UnmapLazy
  \/ DeletePending
  \/ Tick

Spec == Init /\ [][Next]_vars

\* The calls that decide what a lookup returns, with every label list.
NextFind ==
  \/ Open({{}})
  \/ Close
  \/ Add(LabelSets, PlainBodies)
  \/ FindAll
  \/ FindFirst
  \/ Incref
  \/ Decref
  \/ MarkForRemoval
  \/ DeletePending

SpecFind == Init /\ [][NextFind]_vars

\* The cache with its files: bodies written and read back, files that fail
\* to map when the directory is scanned.
NextStore ==
  \/ Open(SUBSET (DOMAIN files))
  \/ Close
  \/ Add(StoreLabels, Bodies)
  \/ GetBody
  \/ Decref
  \/ MarkForRemoval
  \/ DeletePending

SpecStore == Init /\ [][NextStore]_vars

\* The cache and the weak handles callers make to its entries.
NextHandle ==
  \/ Open({{}})
  \/ Close
  \/ Add(PlainLabels, PlainBodies)
  \/ Incref
  \/ Decref
  \/ MarkForRemoval
  \/ DeletePending
  \/ HandleNew
  \/ HandleGet

SpecHandle == Init /\ [][NextHandle]_vars

\* The cache and the lists callers filter by label.
NextFilter ==
  \/ Open({{}})
  \/ Add(LabelSets, PlainBodies)
  \/ MarkForRemoval
  \/ Decref
  \/ FilterList

SpecFilter == Init /\ [][NextFilter]_vars

----------------------------------------------------------------------------
(* Properties.  They speak of the state after a call and of what the call    *)
(* found, which the log op keeps.                                            *)

InList(sl, e) == \E i \in 1..Len(sl) : sl[i] = e

\* The entries of the collection that are marked for removal now.
Marked == {e \in Slots : InList(entries, e) /\ ent[e].can_remove}

\* The entries of the collection that were marked when the last call began.
WasMarked == {e \in Slots : InList(op.list, e) /\ op.was[e].can_remove}

C3_ForcedSweepRemovesAllMarked ==
  op.name = "delete_pending" /\ op.n = 1 =>
    /\ Marked = {}
    /\ \A e \in WasMarked :
         /\ ~InList(entries, e)
         /\ op.was[e].fname \notin DOMAIN files
         /\ op.was[e].fname \in op.rm
    /\ \A e \in Slots : InList(op.list, e) /\ e \notin WasMarked =>
         InList(entries, e) /\ ent[e] = op.was[e]

\* A forced sweep removed two marked entries next to each other at the head
\* of the collection, one of them held by a caller.
C3_Witness ==
  /\ op.name = "delete_pending"
  /\ op.n = 1
  /\ Len(op.list) >= 2
  /\ op.list[1] \in WasMarked
  /\ op.list[2] \in WasMarked
  /\ \E e \in WasMarked : op.was[e].refcnt > 1 /\ Live(e)
  /\ entries = << >>

\* The decref that follows an incref of the same entry.
RoundTrip == op.name = "decref" /\ op.pre0.magic = CCE_MAGIC

\* C4, as stated: incref followed at once by decref of the same entry leaves
\* refcount and the mapped state as they were, in every state of the entry.
C4_RoundTripChangesNothing ==
  RoundTrip => /\ ent[op.e].refcnt = op.pre0.refcnt
               /\ ent[op.e].map = op.pre0.map

\* The one case in which the round trip unmaps: the cache alone held the
\* entry, mapped and marked for aggressive release.
AggressiveCase(x) ==
  x.refcnt = 1 /\ x.in_cache /\ x.map /\ x.release_aggressively

\* C4, amended: the round trip leaves refcount as it was, and leaves the
\* mapped state as it was unless the entry was attached with refcount 1,
\* mapped and marked for aggressive release: then the decref unmaps it.
C4_RoundTripKeepsRefcount ==
  RoundTrip => /\ ent[op.e].refcnt = op.pre0.refcnt
               /\ ent[op.e].map = (op.pre0.map /\ ~AggressiveCase(op.pre0))

\* A round trip on an entry in the aggressive case.
C4_Witness == RoundTrip /\ AggressiveCase(op.pre0)

\* C5: unmap_lazy(cache, cutoff) never unmaps an entry whose unused_since is
\* the infinite sentinel, for every cutoff.
C5_SentinelNeverUnmapped ==
  op.name = "unmap_lazy" =>
    \A e \in Slots :
       /\ op.was[e].magic = CCE_MAGIC
       /\ op.was[e].map
       /\ op.was[e].unused_since = TIME_MAX
       => ent[e].map

\* C6: unmap_lazy(cache, cutoff) unmaps every entry of the cache that has
\* refcount 1, is mapped and has unused_since <= cutoff, and leaves every
\* other entry (refcount > 1, or unused_since > cutoff) untouched.
C6_UnmapLazy ==
  op.name = "unmap_lazy" =>
    /\ entries = op.list
    /\ \A e \in Slots :
         LET x == op.was[e]
         IN  IF /\ InList(op.list, e)
                /\ x.refcnt = 1
                /\ x.map
                /\ x.unused_since <= op.n
               THEN ent[e] = [x EXCEPT !.map = FALSE, !.unused_since = TIME_MAX,
                                       !.body = << >>, !.bodylen = 0]
               ELSE ent[e] = x

\* A sweep unmapped an entry released at or before the cutoff and left
\* another, released after the cutoff, mapped.
C6_Witness ==
  /\ op.name = "unmap_lazy"
  /\ \E e \in op.un : op.was[e].unused_since \in Times
  /\ \E e \in Slots : /\ InList(entries, e)
                      /\ ent[e].refcnt = 1
                      /\ ent[e].map
                      /\ ent[e].unused_since \in Times
                      /\ ent[e].unused_since > op.n

\* C7: unused_since is finite only if refcount is 1, the owning cache is
\* present and the entry is mapped.  So it is infinite after every call that
\* raised the refcount, detached the entry or unmapped it; and it is
\* infinite after the get_body that mapped the entry.
C7_UnusedSince ==
  /\ \A e \in Slots :
       Live(e) /\ ent[e].unused_since # TIME_MAX =>
         ent[e].refcnt = 1 /\ ent[e].in_cache /\ ent[e].map
  /\ op.name = "get_body" /\ ~op.pre.map /\ ent[op.e].map =>
       ent[op.e].unused_since = TIME_MAX
  /\ op.name = "incref" => ent[op.e].unused_since = TIME_MAX

\* An incref stopped an entry's idle clock, after time has passed.
C7_Witness ==
  /\ now > 0
  /\ op.name = "incref"
  /\ op.pre.unused_since \in Times
  /\ ent[op.e].map

\* C8: every entry in the collection is live, has refcount >= 1 and has its
\* back-reference set; a destroyed entry is not in the collection.  refcnt
\* counts the callers' references and the cache's own.
C8_CollectionHoldsLiveEntries ==
  /\ \A i \in 1..Len(entries) :
       /\ Live(entries[i])
       /\ ent[entries[i]].refcnt >= 1
       /\ ent[entries[i]].in_cache
  /\ \A e \in Slots :
       /\ ~Live(e) => ~InList(entries, e) /\ ext[e] = 0
       /\ Live(e) =>
            ent[e].refcnt = ext[e] + (IF InList(entries, e) THEN 1 ELSE 0)

\* A caller's last decref destroyed a detached entry while the collection
\* holds another.
C8_Witness ==
  /\ op.name = "decref"
  /\ op.pre.refcnt = 1
  /\ ~Live(op.e)
  /\ Len(entries) >= 1

\* C9: when decref lowers refcount to 1 on an attached, mapped entry, the
\* entry is unmapped if release_aggressively is set, and otherwise stays
\* mapped with unused_since set to the current time; on an entry that is not
\* mapped, or is detached, neither the mapping nor unused_since changes.
C9_DecrefToOne ==
  op.name = "decref" /\ op.pre.refcnt = 2 =>
    LET x == op.pre
        y == ent[op.e]
    IN  /\ y.refcnt = 1
        /\ IF x.in_cache /\ x.map
             THEN IF x.release_aggressively
                    THEN ~y.map /\ y.unused_since = TIME_MAX
                    ELSE y.map /\ y.unused_since = now
             ELSE y.map = x.map /\ y.unused_since = x.unused_since

\* A decref to 1 that unmapped an attached entry marked for aggressive
\* release.
C9_Witness ==
  /\ op.name = "decref"
  /\ op.pre.refcnt = 2
  /\ op.pre.in_cache
  /\ op.pre.map
  /\ op.pre.release_aggressively

\* The entries a lookup for key=value is to return: not marked for removal,
\* and labelled key=value (every unmarked entry when key is NULL).
Wanted(key, value) ==
  LET Test(e) == /\ ~ent[e].can_remove
                 /\ \/ key = ""
                    \/ \E i \in 1..Len(ent[e].labels) :
                         ent[e].labels[i] = <<key, value>>
  IN  SelectSeq(entries, Test)

\* C10: find_all returns exactly the entries of the collection that are not
\* marked for removal and whose label key equals value; find_first returns
\* the first of them or none; neither changes an entry or the collection.
C10_Lookup ==
  /\ op.name = "find_all" => op.out = Wanted(op.key, op.value)
  /\ op.name = "find_first" =>
       op.e = (IF Wanted(op.key, op.value) = << >> THEN 0
               ELSE Head(Wanted(op.key, op.value)))
  /\ op.name \in {"find_all", "find_first"} =>
       ent = op.was /\ entries = op.list

\* A lookup that found an entry and passed over a marked one with the same
\* label, still in the collection with its file.
C10_Witness ==
  /\ op.name = "find_all"
  /\ op.key = "k"
  /\ op.out # << >>
  /\ \E e \in Marked : /\ consensus_cache_entry_get_value(ent[e], op.key) = op.value
                       /\ ent[e].fname \in DOMAIN files

----------------------------------------------------------------------------
(* consensus_cache_add() and the files. *)

\* Entry e carries the label key=value.
HasLabel(e, key, value) ==
  \E i \in 1..Len(ent[e].labels) : ent[e].labels[i] = <<key, value>>

\* The last call was an add that returned an entry.
Added == op.name = "add" /\ op.n = 1

\* What add leaves of the entry it returns: two references, in the
\* collection at its end with the back-pointer set, not mapped, never
\* released, not marked, with the labels given; every other entry as it was.
AddedEntry ==
  LET e == op.e
      x == ent[e]
  IN  /\ e \in Slots
      /\ x.magic = CCE_MAGIC
      /\ x.refcnt = 2
      /\ entries = Append(op.list, e)
      /\ ~InList(op.list, e)
      /\ x.in_cache
      /\ ~x.map /\ x.body = << >>
      /\ x.unused_since = TIME_MAX
      /\ ~x.can_remove
      /\ x.labels = op.labels
      /\ \A s \in Slots \ {e} : ent[s] = op.was[s]

\* get_body on the entry just added, when the storage maps its file, gives
\* the bytes written and their number.
AddedBody ==
  LET g == consensus_cache_entry_get_body(ent[op.e], files, TRUE)
  IN  g.r = 0 /\ g.body = op.body /\ g.sz = Len(op.body) /\ g.asked

\* C11 as stated: after a successful add the entry is as AddedEntry says,
\* get_body gives the bytes written, and for every label given both find_all
\* and find_first return the entry.
C11_FoundFirstByEveryLabel ==
  Added =>
    /\ AddedEntry
    /\ AddedBody
    /\ \A i \in 1..Len(op.labels) :
         LET key == op.labels[i][1]
             value == op.labels[i][2]
         IN  /\ InList(consensus_cache_find_all(ent, entries, key, value), op.e)
             /\ consensus_cache_find_first(ent, entries, key, value) = op.e

\* C11: after a successful add the entry has two references, is in the
\* collection with its back-pointer set, is unmapped with unused_since
\* infinite and not marked for removal; get_body on it gives exactly the bytes
\* written when the storage maps the file; for every label given, find_all
\* returns the entry, and find_first returns an unmarked entry with that
\* label, which is the new entry when no entry before it in the collection is
\* unmarked and carries the label.
C11_AddedEntryFound ==
  Added =>
    /\ AddedEntry
    /\ AddedBody
    /\ \A i \in 1..Len(op.labels) :
         LET key == op.labels[i][1]
             value == op.labels[i][2]
             f == consensus_cache_find_first(ent, entries, key, value)
             Earlier == {s \in Slots : /\ InList(op.list, s)
                                       /\ ~ent[s].can_remove
                                       /\ HasLabel(s, key, value)}
         IN  /\ InList(consensus_cache_find_all(ent, entries, key, value), op.e)
             /\ f \in Slots
             /\ InList(entries, f) /\ ~ent[f].can_remove /\ HasLabel(f, key, value)
             /\ Earlier = {} => f = op.e
             /\ Earlier # {} => f \in Earlier

\* An add of two labels and a two-byte body into a cache that holds an
\* unmarked entry with one of the labels.
C11_Witness ==
  /\ Added
  /\ Len(op.labels) = 2
  /\ Len(op.body) = 2
  /\ \E s \in Slots \ {op.e} :
       InList(entries, s) /\ ~ent[s].can_remove /\ HasLabel(s, "k", "a")

\* C12: when the storage fails to save the data, add returns no entry and
\* leaves the cache as it was: the collection, every entry (its references,
\* flags and mapping) and the directory.
C12_FailedAddChangesNothing ==
  (op.name = "add" /\ op.n = 0) =>
    /\ op.e = 0
    /\ entries = op.list
    /\ ent = op.was
    /\ files = op.dir

\* A failed add into a cache that holds a mapped entry and has room for
\* another.
C12_Witness ==
  /\ op.name = "add" /\ op.n = 0
  /\ NFree(ent) > 0
  /\ \E s \in Slots : InList(entries, s) /\ ent[s].map

\* The entries of the collection made from file f.
EntriesOf(f) == {s \in Slots : InList(entries, s) /\ ent[s].fname = f}

\* After an add, the directory has one more file, holding the labels and the
\* body given, under the name the entry keeps; the other files are as before.
AddSaves ==
  Added =>
    LET f == ent[op.e].fname
    IN  /\ f \notin DOMAIN op.dir
        /\ DOMAIN files = DOMAIN op.dir \cup {f}
        /\ files[f] = [labels |-> op.labels, body |-> op.body]
        /\ \A g \in DOMAIN op.dir : files[g] = op.dir[g]

\* After an open, the collection has one entry for each file of the directory
\* that the storage could map and none for the others; the entry has the
\* file's labels and one reference, is not mapped, was never released, is not
\* marked, and get_body on it gives the file's body; the entries that were
\* alive before the open are as they were and outside the collection.
OpenRescans ==
  op.name = "open" =>
    /\ Len(entries) = Cardinality(DOMAIN files \ op.rm)
    /\ \A f \in DOMAIN files \ op.rm :
         \E s \in EntriesOf(f) :
           LET x == ent[s]
               g == consensus_cache_entry_get_body(x, files, TRUE)
           IN  /\ EntriesOf(f) = {s}
               /\ x.magic = CCE_MAGIC
               /\ x.labels = files[f].labels
               /\ x.refcnt = 1
               /\ x.in_cache
               /\ ~x.map /\ x.body = << >>
               /\ x.unused_since = TIME_MAX
               /\ ~x.can_remove /\ ~x.release_aggressively
               /\ g.r = 0 /\ g.body = files[f].body
    /\ \A f \in op.rm : EntriesOf(f) = {}
    /\ \A s \in Slots :
         op.was[s].magic = CCE_MAGIC => ent[s] = op.was[s] /\ ~InList(entries, s)

\* No call changes a file of the directory: a file keeps its labels and its
\* body until it is deleted.
FilesKept == \A f \in DOMAIN files \cap DOMAIN files' : files'[f] = files[f]

\* C13: add saves the labels and the body in a file, no call changes a file
\* until it is deleted, and an open builds from every file the storage maps
\* an entry with the file's labels whose get_body gives the file's body, with
\* one reference, unmapped, unused_since infinite and not marked for removal;
\* a file that fails to map is passed over and the files after it are still
\* scanned.
C13_PersistenceRoundTrip ==
  /\ [](AddSaves /\ OpenRescans)
  /\ [][FilesKept]_vars

\* A reopen after a close, of a directory of two files written by add, the
\* first of which fails to map; an entry of the closed cache is still held.
C13_Witness ==
  /\ op.name = "open"
  /\ op.rm = {1}
  /\ DOMAIN files = {1, 2}
  /\ Len(files[2].body) = 2 /\ Len(files[2].labels) = 2
  /\ Len(entries) = 1
  /\ \E s \in Slots : op.was[s].magic = CCE_MAGIC

----------------------------------------------------------------------------
(* consensus_cache_entry_get_body(). *)

\* The last call was a get_body on an entry that was not mapped and not in a
\* cache.
GetBodyDetached == op.name = "get_body" /\ ~op.pre.map /\ ~op.pre.in_cache

\* The last call was a get_body on a mapped entry.
GetBodyMapped == op.name = "get_body" /\ op.pre.map

\* The last call was a get_body for which the storage failed to map the file.
GetBodyMapFailed ==
  op.name = "get_body" /\ ~op.pre.map /\ op.pre.in_cache /\ op.n = -1

\* C14: get_body on an unmapped entry that is in no cache fails without
\* asking the storage to map anything and leaves the entry as it was; on a
\* mapped entry, in a cache or not, it returns the mapped body and its length
\* and leaves the entry as it was; when the storage fails to map the file it
\* fails, and the entry stays unmapped and in the collection with the same
\* references and flags.
C14_GetBody ==
  /\ GetBodyDetached =>
       op.n = -1 /\ ~op.asked /\ ent[op.e] = op.pre
  /\ GetBodyMapped =>
       /\ op.n = 0 /\ ~op.asked
       /\ op.body = op.pre.body /\ op.sz = op.pre.bodylen
       /\ ent[op.e] = op.pre
  /\ GetBodyMapFailed =>
       /\ op.asked
       /\ ~ent[op.e].map /\ ent[op.e].body = << >>
       /\ ent[op.e].in_cache /\ InList(entries, op.e)
       /\ ent[op.e] = [op.pre EXCEPT !.unused_since = TIME_MAX]
  /\ op.name = "get_body" =>
       GetBodyDetached \/ GetBodyMapped \/ GetBodyMapFailed \/ (op.n = 0 /\ op.asked)

\* A get_body that failed without asking the storage, on an entry whose
\* cache was closed while a caller held it.
C14_Witness ==
  /\ GetBodyDetached
  /\ ~open
  /\ ext[op.e] > 0
  /\ op.pre.fname \in DOMAIN files

\* A get_body on a mapped entry that is in no cache.
GetBodyMappedDetachedCase == GetBodyMapped /\ ~op.pre.in_cache

\* A get_body the storage failed, on an entry marked for removal that a
\* caller holds.
GetBodyMapFailedCase == GetBodyMapFailed /\ op.pre.can_remove /\ op.pre.refcnt = 2

----------------------------------------------------------------------------
(* Weak handles. *)

\* The last call freed the entry in slot s.
Freed(s) ==
  \/ op.name = "decref" /\ op.e = s /\ ~Live(s)
  \/ op.name \in {"close", "delete_pending"}
       /\ op.was[s].magic = CCE_MAGIC /\ ~Live(s)

\* C15: a weak handle made to an entry resolves to that entry as long as
\* the entry is not freed; the decref that takes the references to zero frees
\* the entry and clears every handle to it; a cleared handle resolves to
\* nothing from then on.
C15_WeakHandles ==
  /\ \A h \in Handles :
       /\ wh[h] > 0 => Live(wh[h])
       /\ op.hw[h] = -1 => wh[h] = -1
       /\ op.hw[h] > 0 =>
            wh[h] = (IF Freed(op.hw[h]) THEN -1 ELSE op.hw[h])
  /\ op.name = "handle_get" =>
       /\ wh[op.n] > 0 => op.e = wh[op.n] /\ Live(op.e)
       /\ wh[op.n] = -1 => op.e = 0
  /\ (op.name = "decref" /\ op.pre.refcnt = 1) =>
       /\ ~Live(op.e)
       /\ \A h \in Handles : op.hw[h] = op.e => wh[h] = -1

\* A decref to zero of an entry with two handles, while the cache is open
\* and has room for a new entry in the slot.
C15_Witness ==
  /\ op.name = "decref"
  /\ op.pre.refcnt = 1
  /\ \A h \in Handles : op.hw[h] = op.e
  /\ open

\* A handle that resolves to nothing although its slot holds an entry again.
HandleStaleCase ==
  /\ op.name = "handle_get"
  /\ op.e = 0
  /\ \E s \in Slots : Live(s) /\ op.hw[op.n] = -1 /\ NFree(ent) = 0

----------------------------------------------------------------------------
(* Teardown and the life of an entry. *)

\* C16: close empties the collection; every entry that was in it and that a
\* caller still references stays alive, in no cache, with one reference less
\* and everything else, its mapping included, as it was; every entry only the
\* cache referenced is freed; the entries outside the collection are as they
\* were; and the file of an entry not marked for removal stays in the
\* directory as it was.
C16_CloseReleasesEachEntryOnce ==
  op.name = "close" =>
    /\ entries = << >>
    /\ \A s \in Slots :
         LET w == op.was[s]
         IN  IF ~InList(op.list, s) THEN ent[s] = w
             ELSE /\ w.refcnt > 1 =>
                       ent[s] = [w EXCEPT !.in_cache = FALSE, !.refcnt = @ - 1]
                  /\ w.refcnt = 1 => ent[s] = FreeEnt
                  /\ w.refcnt >= 1
                  /\ ~w.can_remove =>
                       /\ w.fname \notin op.rm
                       /\ w.fname \in DOMAIN op.dir
                       /\ w.fname \in DOMAIN files
                       /\ files[w.fname] = op.dir[w.fname]

\* A close of a cache with a mapped entry a caller holds and an unmarked
\* entry only the cache referenced.
C16_Witness ==
  /\ op.name = "close"
  /\ \E s \in Slots : InList(op.list, s) /\ op.was[s].refcnt = 2 /\ op.was[s].map
  /\ \E s \in Slots :
       InList(op.list, s) /\ op.was[s].refcnt = 1 /\ ~op.was[s].can_remove

----------------------------------------------------------------------------
(* consensus_cache_filter_list(). *)

\* How many times s is in the list sl.
Count(sl, s) == Cardinality({i \in 1..Len(sl) : sl[i] = s})

\* C17: filter_list leaves in the list the entries of the list it was given
\* whose label key is there and equals value, each as many times as it was in
\* the list, and no other; with a NULL key it leaves the list as it was; it
\* does not look at can_remove; it changes no entry, so no reference count,
\* and not the cache's collection.
C17_FilterList ==
  op.name = "filter_list" =>
    /\ \A s \in Slots :
         Count(op.out, s) =
           (IF op.key = "" \/ consensus_cache_entry_get_value(ent[s], op.key) = op.value
              THEN Count(op.list, s) ELSE 0)
    /\ op.key = "" => op.out = op.list
    /\ ent = op.was

\* A filter of a list that begins with two entries in a row that do not
\* match and holds a matching entry that is marked for removal.
C17_Witness ==
  /\ op.name = "filter_list"
  /\ op.key = "k"
  /\ Len(op.list) = 3
  /\ filter_list_deletes(ent[op.list[1]], op.key, op.value)
  /\ filter_list_deletes(ent[op.list[2]], op.key, op.value)
  /\ ~filter_list_deletes(ent[op.list[3]], op.key, op.value)
  /\ ent[op.list[3]].can_remove
  /\ op.out = <<op.list[3]>>

\* A step keeps the mapping of every mapped entry that a caller holds before
\* and after it.
HeldStaysMapped ==
  \A e \in Slots :
    (Live(e) /\ ent[e].map /\ ext[e] >= 1 /\ ext'[e] >= 1) =>
      /\ ent'[e].magic = CCE_MAGIC
      /\ ent'[e].map
      /\ ent'[e].body = ent[e].body /\ ent'[e].bodylen = ent[e].bodylen

\* A step that drops the mapping of an entry is the decref that leaves the
\* cache's reference as the only one, of an entry to release aggressively, or
\* an unmap_lazy, or frees the entry.
UnmappedOnlyBy ==
  \A e \in Slots :
    (Live(e) /\ ent[e].map /\ ~ent'[e].map) =>
      \/ /\ op'.name = "decref" /\ op'.e = e
         /\ ent'[e].refcnt = 1 /\ ent'[e].in_cache
         /\ ent[e].release_aggressively
      \/ op'.name = "unmap_lazy" /\ ent'[e].magic = CCE_MAGIC /\ ext[e] = 0
      \/ ent'[e].magic # CCE_MAGIC /\ ext'[e] = 0

\* C18: when callers only release references they hold, no call unmaps a
\* mapped entry that a caller holds a reference to before and after the call;
\* a mapping is dropped only by the decref that leaves the cache as the only
\* referent of an entry to release aggressively, by an unmap_lazy of an entry
\* no caller holds, or when the entry is freed.
C18_HeldEntryStaysMapped == [][HeldStaysMapped /\ UnmappedOnlyBy]_vars

\* An unmap_lazy with the largest cutoff that unmapped an entry and passed
\* over a mapped entry a caller holds, which is marked for aggressive
\* release.
C18_Witness ==
  /\ op.name = "unmap_lazy"
  /\ op.n = TIME_MAX
  /\ op.un # {}
  /\ \E e \in Slots :
       ext[e] >= 1 /\ ent[e].map /\ InList(entries, e) /\ ent[e].release_aggressively

\* A step that frees an entry takes its last reference: a caller's decref of
\* an entry that is in no cache, or the cache's own release, in a sweep or a
\* close, of an entry no caller holds.  No caller holds the entry afterwards.
FreedByLastDecref ==
  \A e \in Slots :
    (Live(e) /\ ent'[e].magic # CCE_MAGIC) =>
      /\ ent[e].refcnt = 1
      /\ ent'[e] = FreeEnt
      /\ ext'[e] = 0
      /\ ~InList(entries', e)
      /\ \/ /\ op'.name = "decref" /\ op'.e = e
            /\ ext[e] = 1 /\ ~ent[e].in_cache
         \/ /\ op'.name \in {"delete_pending", "close"}
            /\ ext[e] = 0 /\ InList(entries, e)

\* A sweep or a close that takes a held entry out of the collection leaves
\* it alive, in no cache, with one reference less.
RemovedHeldStaysAlive ==
  \A e \in Slots :
    (InList(entries, e) /\ ~InList(entries', e) /\ ent[e].refcnt > 1) =>
      /\ op'.name \in {"delete_pending", "close"}
      /\ ent'[e] = [ent[e] EXCEPT !.in_cache = FALSE, !.refcnt = @ - 1]
      /\ ext'[e] = ext[e]

\* Every reference is to a live entry: the collection holds live entries,
\* each once, callers hold live entries, and a live entry has a reference.
ReferencesToLive ==
  /\ \A i, j \in 1..Len(entries) : entries[i] = entries[j] => i = j
  /\ \A i \in 1..Len(entries) : Live(entries[i])
  /\ \A e \in Slots :
       /\ ext[e] > 0 => (Live(e) /\ ent[e].refcnt >= ext[e])
       /\ Live(e) => ent[e].refcnt >= 1
       /\ ~Live(e) => ent[e] = FreeEnt

\* C19: an entry is freed only by the decref that takes its last reference,
\* never while a caller holds a reference to it; a forced sweep or a close
\* takes a held entry out of the collection and detaches it but leaves it
\* alive with at least one reference; and no freed entry is released again,
\* since every reference is to a live entry.
C19_DestroyedOnlyAtZero ==
  /\ []ReferencesToLive
  /\ [][FreedByLastDecref /\ RemovedHeldStaysAlive]_vars

\* A forced sweep took a marked entry that a caller holds out of the
\* collection, and the entry is alive.
C19_Witness ==
  /\ op.name = "delete_pending"
  /\ op.n = 1
  /\ \E e \in Slots :
       /\ InList(op.list, e) /\ ~InList(entries, e)
       /\ Live(e) /\ ext[e] >= 1 /\ ~ent[e].in_cache /\ ent[e].can_remove

\* No caller holds a reference.
AllReleased == \A e \in Slots : ext[e] = 0

\* C20: no entry leaks.  Every live entry is referenced by a caller or by
\* the collection of the open cache, so it is still to be released; and once
\* the cache is closed and every caller has released its references, every
\* entry made by add or by the rescan has been freed, whatever it went
\* through.
C20_NoLeak ==
  /\ \A e \in Slots :
       Live(e) => ext[e] >= 1 \/ (open /\ InList(entries, e))
  /\ (~open /\ AllReleased) =>
       /\ entries = << >>
       /\ \A e \in Slots : ent[e] = FreeEnt

\* The last release, after the close, of a mapped entry that a forced sweep
\* had taken out of the collection.
C20_Witness ==
  /\ ~open
  /\ AllReleased
  /\ op.name = "decref"
  /\ op.pre.refcnt = 1
  /\ op.pre.can_remove /\ op.pre.map
  /\ op.pre.fname \notin DOMAIN files

\* The same in the words of the claim: in every run in which the cache ends
\* closed and the callers end with no reference, the entries end all freed.
NoLeakInTheEnd ==
  <>[](~open /\ AllReleased) => <>[](\A e \in Slots : ~Live(e))

====
